---- MODULE Spec2Model ----
(***************************************************************************)
(* Model of scrape_datacentermap.py: the crawl loop of scrape_centers and  *)
(* the pure helpers it calls (URL normalisation and classification, the    *)
(* JSON-LD ItemList extractor, the anchor extractor, the deduplication).   *)
(*                                                                         *)
(* A Python str is a sequence of tokens.  The token "/" is the slash, " "  *)
(* is one whitespace character, "https:" "http:" "mailto:" are a scheme    *)
(* with its colon, "?q" is a query string with its question mark, "#f" a   *)
(* fragment with its hash, every other token is a run of characters that   *)
(* contains none of / ? # : and no whitespace.                             *)
(***************************************************************************)
EXTENDS Integers, Sequences, FiniteSets, TLC

\* scrape_centers: queue, visited, centers are its locals; pc is "loop" while
\* the while loop runs, "done" after the return, "raised" after an exception
\* left the function; result is the returned list.
\* History: trace is the sequence of the URLs passed to fetch_html, enq the
\* sequence of the URLs ever put in the queue, web maps a fetched URL to the
\* outcome of its fetch and the page it got, contrib lists page_centers of
\* every fetch in fetch order.
\* arg and ret are the arguments and the result of a helper called alone.
VARIABLES queue, visited, centers, pc, result, trace, enq, web, contrib,
          arg, ret

vars == <<queue, visited, centers, pc, result, trace, enq, web, contrib,
          arg, ret>>

crawlVars == <<queue, visited, centers, pc, result, trace, enq, web, contrib>>

(***************************************************************************)
(* Strings                                                                 *)
(***************************************************************************)
\* F applied to the value of v, with v evaluated once
With(v, F(_)) == CHOOSE r \in {F(x) : x \in {v}} : TRUE

\* the suffix of s that starts at index i (s[i:] with 1-based i)
SelectFrom(s, i) == SubSeq(s, i, Len(s))

\* least index of a token of s that is in the set toks, Len(s)+1 if none
FirstIn(s0, toks) ==
    With(s0, LAMBDA s :
        With({i \in 1..Len(s) : s[i] \in toks}, LAMBDA at :
            IF at = {} THEN Len(s) + 1
            ELSE CHOOSE i \in at : \A j \in at : i <= j))

\* str.lower() on one token
LowerTok(t) ==
    CASE t = "USA" -> "usa"
      [] t = "Usa" -> "usa"
      [] t = "HTTPS:" -> "https:"
      [] t = "Data-Centres" -> "data-centres"
      [] t = "DATACENTER" -> "datacenter"
      [] OTHER -> t

\* str.lower()
Lower(s0) == With(s0, LAMBDA s : [i \in 1..Len(s) |-> LowerTok(s[i])])

\* str.startswith("/")
StartsWithSlash(s0) == With(s0, LAMBDA s : Len(s) >= 1 /\ s[1] = "/")

\* str.rstrip("/")
RstripSlash(s0) ==
    With(s0, LAMBDA s :
        With({i \in 1..Len(s) : s[i] # "/"}, LAMBDA keep :
            IF keep = {} THEN <<>>
            ELSE SubSeq(s, 1, CHOOSE i \in keep : \A j \in keep : j <= i)))

\* str.split(sep) for a one-token separator: the list of the pieces, empty
\* pieces kept.  The k-th piece lies between the (k-1)-th and the k-th sep.
SplitOn(s0, sep) ==
    With(s0, LAMBDA s :
        With({0, Len(s) + 1} \cup {i \in 1..Len(s) : s[i] = sep}, LAMBDA cuts :
            [k \in 1..(Cardinality(cuts) - 1) |->
                With(CHOOSE i \in cuts : Cardinality({j \in cuts : j < i}) = k - 1, LAMBDA from :
                    With(CHOOSE i \in cuts : Cardinality({j \in cuts : j < i}) = k, LAMBDA to :
                        SubSeq(s, from + 1, to - 1)))]))

\* [part for part in parts if part]
NonEmptyParts(parts) == SelectSeq(parts, LAMBDA p : p # <<>>)

RECURSIVE JoinWith(_, _)
\* sep.join(parts)
JoinWith(parts0, sep) ==
    With(parts0, LAMBDA parts :
        IF parts = <<>> THEN <<>>
        ELSE IF Len(parts) = 1 THEN parts[1]
        ELSE parts[1] \o <<sep>> \o JoinWith(Tail(parts), sep))

\* normalize_whitespace: " ".join(text.split())
normalize_whitespace(text) == JoinWith(NonEmptyParts(SplitOn(text, " ")), " ")

(***************************************************************************)
(* urllib.parse on token strings                                           *)
(***************************************************************************)
SchemeTokens == {"https:", "http:", "HTTPS:", "mailto:"}

SchemeName(t) ==
    CASE LowerTok(t) = "https:" -> "https"
      [] LowerTok(t) = "http:" -> "http"
      [] LowerTok(t) = "mailto:" -> "mailto"
      [] OTHER -> ""

SchemeTok(name) ==
    CASE name = "https" -> "https:"
      [] name = "http" -> "http:"
      [] name = "mailto" -> "mailto:"
      [] OTHER -> ""

UsesRelative == {"https", "http", ""}
UsesNetloc == {"https", "http", ""}

\* the split of what follows the netloc: path, query, fragment
SplitPath(scheme, netloc, r0) ==
    With(r0, LAMBDA r2 :
        With(FirstIn(r2, {"#f"}), LAMBDA fragAt :
            With(SubSeq(r2, 1, fragAt - 1), LAMBDA r3 :
                With(FirstIn(r3, {"?q"}), LAMBDA queryAt :
                    [scheme |-> scheme, netloc |-> netloc,
                     path |-> SubSeq(r3, 1, queryAt - 1),
                     query |-> SelectFrom(r3, queryAt),
                     fragment |-> SelectFrom(r2, fragAt)]))))

\* the split of what follows the scheme: netloc, then path, query, fragment
SplitNetloc(scheme, r0) ==
    With(r0, LAMBDA r1 :
        IF Len(r1) >= 2 /\ r1[1] = "/" /\ r1[2] = "/"
        THEN With(SelectFrom(r1, 3), LAMBDA afterNet :
                With(FirstIn(afterNet, {"/", "?q", "#f"}), LAMBDA netEnd :
                    SplitPath(scheme, SubSeq(afterNet, 1, netEnd - 1),
                              SelectFrom(afterNet, netEnd))))
        ELSE SplitPath(scheme, <<>>, r1))

\* urlparse(url): scheme, netloc, path, query, fragment
urlparse(url0) ==
    With(url0, LAMBDA url :
        IF Len(url) >= 1 /\ url[1] \in SchemeTokens
        THEN SplitNetloc(SchemeName(url[1]), Tail(url))
        ELSE SplitNetloc("", url))

\* urlunparse / ParseResult.geturl()
geturl(p0) ==
    With(p0, LAMBDA p :
        With(IF p.path # <<>> /\ p.path[1] # "/" THEN <<"/">> \o p.path ELSE p.path,
             LAMBDA slashed :
            With(IF p.netloc # <<>>
                    \/ (p.scheme # "" /\ p.scheme \in UsesNetloc
                        /\ ~(Len(p.path) >= 2 /\ p.path[1] = "/" /\ p.path[2] = "/"))
                 THEN <<"/", "/">> \o p.netloc \o slashed
                 ELSE p.path,
                 LAMBDA u1 :
                (IF p.scheme # "" THEN <<SchemeTok(p.scheme)>> \o u1 ELSE u1)
                \o p.query \o p.fragment)))

\* the directory of a base path: bpath.split('/') with the last piece removed
BaseParts(bpath) ==
    With(SplitOn(bpath, "/"), LAMBDA parts :
        IF parts[Len(parts)] # <<>> THEN SubSeq(parts, 1, Len(parts) - 1) ELSE parts)

\* segments[1:-1] = filter(None, segments[1:-1])
FilterMiddle(segments0) ==
    With(segments0, LAMBDA segments :
        IF Len(segments) <= 2 THEN segments
        ELSE <<segments[1]>> \o NonEmptyParts(SubSeq(segments, 2, Len(segments) - 1))
             \o <<segments[Len(segments)]>>)

\* the end of urljoin: the path of url is resolved against the path of base
JoinPaths(b, u) ==
    With(IF u.path[1] = "/" THEN SplitOn(u.path, "/")
         ELSE FilterMiddle(BaseParts(b.path) \o SplitOn(u.path, "/")),
         LAMBDA segments :
        With(JoinWith(segments, "/"), LAMBDA joined :
            geturl([u EXCEPT !.netloc = b.netloc,
                             !.path = IF joined = <<>> THEN <<"/">> ELSE joined])))

\* urljoin(base, url), for paths without "." and ".." segments
urljoin(base0, url0) ==
    With(base0, LAMBDA base :
    With(url0, LAMBDA url :
        IF base = <<>> THEN url
        ELSE IF url = <<>> THEN base
        ELSE With(urlparse(base), LAMBDA b :
             With(urlparse(url), LAMBDA u0 :
             With([u0 EXCEPT !.scheme = IF u0.scheme = "" THEN b.scheme ELSE u0.scheme],
                  LAMBDA u :
                IF u.scheme # b.scheme \/ u.scheme \notin UsesRelative THEN url
                ELSE IF u.scheme \in UsesNetloc /\ u.netloc # <<>> THEN geturl(u)
                ELSE IF u.path = <<>>
                     THEN geturl([u EXCEPT !.netloc = b.netloc, !.path = b.path,
                                    !.query = IF u.query = <<>> THEN b.query ELSE u.query])
                ELSE JoinPaths(b, u))))))

\* normalize_url(href, base_url)
normalize_url(href, base_url) ==
    With(href, LAMBDA h :
        IF h = <<>> THEN <<>>
        ELSE With(urlparse(urljoin(base_url, h)), LAMBDA parsed :
                IF parsed.scheme \notin {"http", "https"} THEN <<>>
                ELSE geturl([parsed EXCEPT !.query = <<>>, !.fragment = <<>>])))

\* every URL below the marker is region-level
classify_location_url_NoDepth(url, base_netloc) ==
    With(urlparse(url), LAMBDA parsed :
    With(NonEmptyParts(SplitOn(parsed.path, "/")), LAMBDA parts :
        IF parsed.netloc # base_netloc THEN "None"
        ELSE IF parts = <<>> \/ Lower(parts[1]) # <<"usa">> THEN "None"
        ELSE IF Len(parts) >= 2 THEN "state"
        ELSE "None"))

\* classify_location_url(url, base_netloc); "None" stands for None
classify_location_url(url, base_netloc) ==
    With(urlparse(url), LAMBDA parsed :
    With(NonEmptyParts(SplitOn(parsed.path, "/")), LAMBDA parts :
        IF parsed.netloc # base_netloc THEN "None"
        ELSE IF parts = <<>> \/ Lower(parts[1]) # <<"usa">> THEN "None"
        ELSE IF Len(parts) = 2 THEN "state"
        ELSE IF Len(parts) >= 3 THEN "city"
        ELSE "None"))

(***************************************************************************)
(* Location labels                                                         *)
(***************************************************************************)
\* slug.replace("-", " ") on one token
ReplaceHyphenTok(t) ==
    CASE t = "new-york" -> <<"new", " ", "york">>
      [] t = "-tx" -> <<" ", "tx">>
      [] OTHER -> <<t>>

RECURSIVE ReplaceHyphen(_)
\* slug.replace("-", " ")
ReplaceHyphen(s0) ==
    With(s0, LAMBDA s :
        IF s = <<>> THEN <<>> ELSE ReplaceHyphenTok(Head(s)) \o ReplaceHyphen(Tail(s)))

\* str.strip()
Strip(s0) ==
    With(s0, LAMBDA s :
        With({i \in 1..Len(s) : s[i] # " "}, LAMBDA keep :
            IF keep = {} THEN <<>>
            ELSE SubSeq(s, CHOOSE i \in keep : \A j \in keep : i <= j,
                           CHOOSE i \in keep : \A j \in keep : j <= i)))

\* str.title() on one token
TitleTok(t) ==
    CASE t = "tx" -> "Tx"
      [] t = "TX" -> "Tx"
      [] t = "ny" -> "Ny"
      [] t = "austin" -> "Austin"
      [] t = "new" -> "New"
      [] t = "york" -> "York"
      [] t = "usa" -> "Usa"
      [] t = "USA" -> "Usa"
      [] OTHER -> t

\* str.title()
Title(s0) == With(s0, LAMBDA s : [i \in 1..Len(s) |-> TitleTok(s[i])])

\* slug_to_name(slug)
slug_to_name(slug) == Title(Strip(ReplaceHyphen(slug)))

\* extract_location_from_url(url): the pair (state, city)
extract_location_from_url(url) ==
    With(NonEmptyParts(SplitOn(urlparse(url).path, "/")), LAMBDA parts :
        IF parts = <<>> \/ Lower(parts[1]) # <<"usa">>
        THEN [state |-> <<>>, city |-> <<>>]
        ELSE [state |-> IF Len(parts) >= 2 THEN slug_to_name(parts[2]) ELSE <<>>,
              city  |-> IF Len(parts) >= 3 THEN slug_to_name(parts[3]) ELSE <<>>])

(***************************************************************************)
(* Records and extractors                                                  *)
(***************************************************************************)
\* DataCenter(name, url, address, city, state, postal_code)
DataCenter(name, url, address, city, state, postal_code) ==
    [name |-> name, url |-> url, address |-> address, city |-> city,
     state |-> state, postal_code |-> postal_code]

\* d.get(key) or ""  for a dict d whose values are strings
GetOrEmpty(d, key) == IF key \in DOMAIN d THEN d[key] ELSE <<>>

\* a or b  for strings
OrElse(a0, b) == With(a0, LAMBDA a : IF a # <<>> THEN a ELSE b)

RECURSIVE parse_json_ld(_)
\* parse_json_ld: the dict payloads of the ld+json blocks of the page, in
\* order; a block is [kind, payload] with kind "empty" (no script.string),
\* "bad" (JSONDecodeError), "dict" (the payload is the one-item list of the
\* dict), "list" (the payload is the list of the dicts of a JSON array)
parse_json_ld(scripts0) ==
    With(scripts0, LAMBDA scripts :
        IF scripts = <<>> THEN <<>>
        ELSE (CASE scripts[1].kind = "list" -> scripts[1].payload
                [] scripts[1].kind = "dict" -> <<scripts[1].payload[1]>>
                [] OTHER -> <<>>)
             \o parse_json_ld(Tail(scripts)))

\* the address dict of an entry, an empty dict when it has none
AddressData(entry) ==
    IF "address" \in DOMAIN entry THEN entry.address ELSE [none |-> <<>>]

\* the defaults are used only when the entry has no address dict
ElementCenters_DefaultsWithoutAddress(element, default_state, default_city) ==
    IF "item" \notin DOMAIN element THEN <<>>
    ELSE With(element.item, LAMBDA entry :
         With(AddressData(entry), LAMBDA address_data :
            IF GetOrEmpty(entry, "name") # <<>> /\ GetOrEmpty(entry, "url") # <<>>
            THEN <<DataCenter(
                     normalize_whitespace(GetOrEmpty(entry, "name")),
                     GetOrEmpty(entry, "url"),
                     normalize_whitespace(GetOrEmpty(address_data, "streetAddress")),
                     IF "address" \in DOMAIN entry
                     THEN normalize_whitespace(GetOrEmpty(address_data, "addressLocality"))
                     ELSE default_city,
                     IF "address" \in DOMAIN entry
                     THEN normalize_whitespace(GetOrEmpty(address_data, "addressRegion"))
                     ELSE default_state,
                     normalize_whitespace(GetOrEmpty(address_data, "postalCode")))>>
            ELSE <<>>))

\* the body of the loop over itemListElement: the records one element adds.
\* An element is a dict; its "item", when present, is a dict entry.
ElementCenters(element, default_state, default_city) ==
    IF "item" \notin DOMAIN element THEN <<>>
    ELSE With(element.item, LAMBDA entry :
         With(AddressData(entry), LAMBDA address_data :
            IF GetOrEmpty(entry, "name") # <<>> /\ GetOrEmpty(entry, "url") # <<>>
            THEN <<DataCenter(
                     normalize_whitespace(GetOrEmpty(entry, "name")),
                     GetOrEmpty(entry, "url"),
                     normalize_whitespace(GetOrEmpty(address_data, "streetAddress")),
                     OrElse(normalize_whitespace(GetOrEmpty(address_data, "addressLocality")),
                            default_city),
                     OrElse(normalize_whitespace(GetOrEmpty(address_data, "addressRegion")),
                            default_state),
                     normalize_whitespace(GetOrEmpty(address_data, "postalCode")))>>
            ELSE <<>>))

RECURSIVE Flatten(_)
\* the concatenation of the lists of a list
Flatten(ss0) ==
    With(ss0, LAMBDA ss : IF ss = <<>> THEN <<>> ELSE Head(ss) \o Flatten(Tail(ss)))

\* extract_from_itemlist(items, default_state, default_city)
extract_from_itemlist(items0, default_state, default_city) ==
    With(items0, LAMBDA items :
        Flatten([i \in 1..Len(items) |->
            IF items[i].type # "ItemList" THEN <<>>
            ELSE Flatten([k \in 1..Len(items[i].itemListElement) |->
                    ElementCenters(items[i].itemListElement[k],
                                   default_state, default_city)])]))

DataCenterPathWords ==
    {"data-center", "data-centers", "data-centre", "data-centres",
     "datacenter", "datacenters", "datacentre", "datacentres"}

\* DATA_CENTER_PATH_RE.search(href): a slash, a token that matches
\* data[-]?cent(er|re)s? whatever its case, a slash
DATA_CENTER_PATH_RE(href) ==
    \E i \in 1..(Len(href) - 2) :
        href[i] = "/" /\ LowerTok(href[i + 1]) \in DataCenterPathWords /\ href[i + 2] = "/"

\* the url extract_from_links gives the record of an anchor
LinkUrl(href, base_url) ==
    IF StartsWithSlash(href) THEN RstripSlash(base_url) \o href ELSE href

RECURSIVE LinksLoop(_, _, _, _, _)
\* the loop of extract_from_links over the anchors that are left.  An anchor
\* is [href, text, address]: its href, its get_text(" ", strip=True) and the
\* text of the address element of its container ("" when there is none)
LinksLoop(anchors0, seen0, base_url, default_state, default_city) ==
    With(anchors0, LAMBDA anchors :
    With(seen0, LAMBDA seen :
        IF anchors = <<>> THEN <<>>
        ELSE With(LinkUrl(anchors[1].href, base_url), LAMBDA url :
             With(normalize_whitespace(anchors[1].text), LAMBDA name :
                IF ~DATA_CENTER_PATH_RE(anchors[1].href) \/ name = <<>> \/ url \in seen
                THEN LinksLoop(Tail(anchors), seen, base_url, default_state, default_city)
                ELSE <<DataCenter(name, url, normalize_whitespace(anchors[1].address),
                                  default_city, default_state, <<>>)>>
                     \o LinksLoop(Tail(anchors), seen \cup {url}, base_url,
                                  default_state, default_city)))))

\* extract_from_links(soup, base_url, default_state, default_city)
extract_from_links(anchors, base_url, default_state, default_city) ==
    LinksLoop(anchors, {}, base_url, default_state, default_city)

RECURSIVE DedupeLoop(_, _)
DedupeLoop(cs0, seen0) ==
    With(cs0, LAMBDA cs :
    With(seen0, LAMBDA seen :
        IF cs = <<>> THEN <<>>
        ELSE IF <<cs[1].name, cs[1].url>> \in seen THEN DedupeLoop(Tail(cs), seen)
        ELSE <<cs[1]>> \o DedupeLoop(Tail(cs), seen \cup {<<cs[1].name, cs[1].url>>})))

RECURSIVE DedupeLastLoop(_)
DedupeLastLoop(cs0) ==
    With(cs0, LAMBDA cs :
        IF cs = <<>> THEN <<>>
        ELSE IF \E i \in 2..Len(cs) : cs[i].name = cs[1].name /\ cs[i].url = cs[1].url
             THEN DedupeLastLoop(Tail(cs))
             ELSE <<Head(cs)>> \o DedupeLastLoop(Tail(cs)))

\* the last record of a key is kept instead of the first
dedupe_centers_KeepLast(cs) == DedupeLastLoop(cs)

\* dedupe_centers(centers)
dedupe_centers(cs) == DedupeLoop(cs, {})

\* only the pages of a state are kept
extract_location_links_StateOnly(anchors0, base_url) ==
    With(anchors0, LAMBDA anchors :
    With(urlparse(base_url).netloc, LAMBDA base_netloc :
        UNION {With(normalize_url(anchors[i].href, base_url), LAMBDA normalized :
                  IF normalized # <<>>
                     /\ classify_location_url(normalized, base_netloc) = "state"
                  THEN {normalized} ELSE {}) : i \in 1..Len(anchors)}))

\* extract_location_links(soup, base_url): a set
extract_location_links(anchors0, base_url) ==
    With(anchors0, LAMBDA anchors :
    With(urlparse(base_url).netloc, LAMBDA base_netloc :
        UNION {With(normalize_url(anchors[i].href, base_url), LAMBDA normalized :
                  IF normalized # <<>>
                     /\ classify_location_url(normalized, base_netloc) # "None"
                  THEN {normalized} ELSE {}) : i \in 1..Len(anchors)}))

(***************************************************************************)
(* The web the crawl runs on                                               *)
(***************************************************************************)
\* most anchors of one page that point to other pages of the directory
MaxNav == 2

Str_usa == <<"https:", "/", "/", "h", "/", "usa", "/">>
Str_tx == <<"https:", "/", "/", "h", "/", "usa", "/", "tx", "/">>
Str_austin == <<"https:", "/", "/", "h", "/", "usa", "/", "tx", "/", "austin", "/">>
Str_x == <<"https:", "/", "/", "h", "/", "data-centers", "/", "x">>

\* the start_url values
Seeds == {Str_usa \o <<"?q">>, Str_tx \o <<"#f">>}

\* the hrefs of the navigation anchors a page may carry
NavHrefs ==
    << <<"/", "usa", "/", "tx", "/">>,
       Str_austin \o <<"?q">>,
       <<"#f">>,
       <<"https:", "/", "/", "o", "/", "usa", "/", "tx", "/">> >>

NavAnchor(href) == [href |-> href, text |-> <<"go">>, address |-> <<>>]

\* the choices of at most MaxNav navigation anchors, in document order
NavChoices ==
    {s \in UNION {[1..n -> 1..Len(NavHrefs)] : n \in 0..MaxNav} :
        \A i, j \in 1..Len(s) : i < j => s[i] < s[j]}

ItemList(elements) == [type |-> "ItemList", itemListElement |-> elements]

AcmeFull ==
    [name |-> <<"Acme", " ", " ", "DC">>, url |-> Str_x,
     address |-> [streetAddress |-> <<"1", " ", "Main">>, addressLocality |-> <<"Austin">>,
                  addressRegion |-> <<"Texas">>, postalCode |-> <<"78701">>]]

NoName == [url |-> Str_x]

\* the ld+json blocks and the facility anchors a page may carry
Contents ==
    { \* an ItemList with one full entry, and a facility anchor as well
      [scripts |-> <<[kind |-> "dict", payload |-> <<ItemList(<<[item |-> AcmeFull]>>)>>]>>,
       anchors |-> <<[href |-> Str_x, text |-> <<"Acme", " ", "DC">>, address |-> <<>>]>>],
      \* a malformed block and a block that is no ItemList; an anchor with an
      \* empty href
      [scripts |-> <<[kind |-> "bad", payload |-> <<>>],
                     [kind |-> "dict",
                      payload |-> <<[type |-> "Organization",
                                     itemListElement |-> <<[item |-> AcmeFull]>>]>>]>>,
       anchors |-> <<[href |-> <<>>, text |-> <<"Top">>, address |-> <<>>],
                     [href |-> Str_x, text |-> <<"Acme", " ", "DC">>,
                      address |-> <<"1", " ", " ", "Main">>]>>],
      \* an ItemList whose entries give no record (no name, no item), a
      \* mailto anchor and a facility anchor with a root-relative href
      [scripts |-> <<[kind |-> "list",
                      payload |-> <<ItemList(<<[item |-> NoName], [position |-> <<"2">>]>>)>>]>>,
       anchors |-> <<[href |-> <<"mailto:", "x">>, text |-> <<"Mail">>, address |-> <<>>],
                     [href |-> <<"/", "data-centers", "/", "y">>, text |-> <<"Beta">>,
                      address |-> <<"9", " ", "Elm">>]>>] }

\* a page without ld+json block and without facility anchor
PlainContent == [scripts |-> <<>>, anchors |-> <<>>]

\* the pages fetch_html may return, parsed: a plain page with any choice of
\* navigation anchors, or a page with blocks and facility anchors and one
\* navigation anchor to a page of the directory
Pages ==
    {[scripts |-> k.scripts,
      anchors |-> [i \in 1..Len(s) |-> NavAnchor(NavHrefs[s[i]])] \o k.anchors] :
        k \in {PlainContent}, s \in NavChoices}
    \cup
    {[scripts |-> k.scripts,
      anchors |-> <<NavAnchor(NavHrefs[n])>> \o k.anchors] :
        k \in Contents, n \in {1, 2}}

NoPage == [scripts |-> <<>>, anchors |-> <<>>]

\* what a call of fetch_html does: it returns the page, or raises HTTPError
\* or URLError (urlopen), or raises an exception of another class, such as
\* the TimeoutError of a read that times out in response.read()
FetchOutcomes == {"ok", "HTTPError", "URLError", "TimeoutError"}

(***************************************************************************)
(* scrape_centers                                                          *)
(***************************************************************************)
\* except (HTTPError, URLError)
Caught(exc) == exc \in {"HTTPError", "URLError"}

\* the URL is not recorded as visited
MarkVisited_Forgotten(v, url) == v

\* visited.add(url)
MarkVisited(v, url) == v \cup {url}

\* the test "not in queue" is left out
ShouldEnqueue_VisitedOnly(location_url, v, q) == location_url \notin v

\* location_url not in visited and location_url not in queue
ShouldEnqueue(location_url, v, q) ==
    location_url \notin v /\ \A i \in 1..Len(q) : q[i] # location_url

RECURSIVE EnqueueAll(_, _, _)
\* the for loop over the location links, taken in the order `order`
EnqueueAll(order0, v, q0) ==
    With(order0, LAMBDA order :
    With(q0, LAMBDA q :
        IF order = <<>> THEN q
        ELSE EnqueueAll(Tail(order), v,
                        IF ShouldEnqueue(order[1], v, q) THEN Append(q, order[1]) ELSE q)))

\* the anchor records are added to the structured ones
PageCenters_Both(page, url) ==
    With(extract_location_from_url(url), LAMBDA loc :
        extract_from_itemlist(parse_json_ld(page.scripts), loc.state, loc.city)
        \o extract_from_links(page.anchors, url, loc.state, loc.city))

\* page_centers: the structured records, the anchor records when there are none
PageCenters(page, url) ==
    With(extract_location_from_url(url), LAMBDA loc :
    With(extract_from_itemlist(parse_json_ld(page.scripts), loc.state, loc.city),
         LAMBDA structured :
        IF structured = <<>>
        THEN extract_from_links(page.anchors, url, loc.state, loc.city)
        ELSE structured))

\* the orders in which a for loop may go through a set
Orderings(S0) ==
    With(S0, LAMBDA S :
        {s \in [1..Cardinality(S) -> S] :
            \A i, j \in 1..Cardinality(S) : i # j => s[i] # s[j]})

Extend(f, key, val) == [k \in DOMAIN f \cup {key} |-> IF k = key THEN val ELSE f[k]]

Init ==
    /\ \E start_url \in Seeds :
          /\ queue = <<normalize_url(start_url, start_url)>>
          /\ enq = <<normalize_url(start_url, start_url)>>
    /\ visited = {}
    /\ centers = <<>>
    /\ pc = "loop"
    /\ result = <<>>
    /\ trace = <<>>
    /\ web = <<>>
    /\ contrib = <<>>
    /\ arg = <<>>
    /\ ret = <<>>

\* one iteration of the while loop
Iterate ==
    /\ pc = "loop"
    /\ queue # <<>>
    /\ \E url \in {Head(queue)}, rest \in {Tail(queue)} :
          IF url \in visited
          THEN /\ queue' = rest
               /\ UNCHANGED <<visited, centers, pc, result, trace, enq, web, contrib>>
          ELSE \E outcome \in FetchOutcomes :
               /\ visited' = MarkVisited(visited, url)
               /\ trace' = Append(trace, url)
               /\ result' = result
               /\ IF outcome = "ok"
                  THEN \E page \in Pages :
                       \E page_centers \in {PageCenters(page, url)} :
                       \E order \in Orderings(extract_location_links(page.anchors, url)) :
                          /\ web' = Extend(web, url, [outcome |-> outcome, page |-> page])
                          /\ centers' = centers \o page_centers
                          /\ contrib' = Append(contrib, page_centers)
                          /\ queue' = EnqueueAll(order, visited', rest)
                          /\ enq' = enq \o SelectFrom(queue', Len(rest) + 1)
                          /\ pc' = pc
                  ELSE /\ web' = Extend(web, url, [outcome |-> outcome, page |-> NoPage])
                       /\ contrib' = Append(contrib, <<>>)
                       /\ queue' = rest
                       /\ pc' = IF Caught(outcome) THEN pc ELSE "raised"
                       /\ UNCHANGED <<centers, enq>>
    /\ UNCHANGED <<arg, ret>>

\* return dedupe_centers(centers)
Return ==
    /\ pc = "loop"
    /\ queue = <<>>
    /\ result' = dedupe_centers(centers)
    /\ pc' = "done"
    /\ UNCHANGED <<queue, visited, centers, trace, enq, web, contrib, arg, ret>>

Next == Iterate \/ Return

Spec == Init /\ [][Next]_vars

\* the loop keeps running and the return is taken
LiveSpec == Spec /\ WF_vars(Iterate) /\ WF_vars(Return)

(***************************************************************************)
(* Properties of the crawl                                                 *)
(***************************************************************************)
Fetched == {trace[i] : i \in 1..Len(trace)}

FetchedOk(u) == u \in DOMAIN web /\ web[u].outcome = "ok"

\* the region-level and locality-level URLs the anchors of the page fetched
\* at u point to, on the host of u
LocationLinksAt(u) ==
    LET anchors == web[u].page.anchors
    IN {normalize_url(anchors[i].href, u) : i \in
          {j \in 1..Len(anchors) :
              classify_location_url(normalize_url(anchors[j].href, u), urlparse(u).netloc)
                  \in {"state", "city"}}}

LinksFrom(u) == IF FetchedOk(u) THEN LocationLinksAt(u) ELSE {}

NoRepeat(s) == \A i, j \in 1..Len(s) : i # j => s[i] # s[j]

KeyOf(c) == <<c.name, c.url>>

KeysOf(cs) == {KeyOf(cs[i]) : i \in 1..Len(cs)}

\* C1: no URL is passed to fetch_html twice, whatever the links and whatever
\* the outcomes of the fetches
C1_FetchedAtMostOnce == NoRepeat(trace)

\* a URL whose fetch failed is linked from a page fetched later, a page links
\* to itself, and a URL is linked from two pages
C1_Witness ==
    /\ pc = "done"
    /\ \E i, j \in 1..Len(trace) :
          i < j /\ web[trace[i]].outcome \in {"HTTPError", "URLError"}
                /\ trace[i] \in LinksFrom(trace[j])
    /\ \E i \in 1..Len(trace) : trace[i] \in LinksFrom(trace[i])

\* C2: a fetch that does not succeed leaves the URL visited, adds no record,
\* and no exception leaves scrape_centers
C2_FetchFailureNeverAborts ==
    \A i \in 1..Len(trace) :
        web[trace[i]].outcome # "ok" =>
            /\ trace[i] \in visited
            /\ contrib[i] = <<>>
            /\ pc # "raised"

\* the least index of a record of cs with the key k
FirstIndex(cs, k) ==
    CHOOSE i \in 1..Len(cs) : KeyOf(cs[i]) = k /\ \A j \in 1..(i - 1) : KeyOf(cs[j]) # k

\* out is cs with every record dropped that has the key of an earlier one
IsFirstSeenDedupe(out, cs) ==
    /\ NoRepeat([i \in 1..Len(out) |-> KeyOf(out[i])])
    /\ KeysOf(out) = KeysOf(cs)
    /\ \A i \in 1..Len(out) : out[i] = cs[FirstIndex(cs, KeyOf(out[i]))]
    /\ \A i, j \in 1..Len(out) :
          i < j => FirstIndex(cs, KeyOf(out[i])) < FirstIndex(cs, KeyOf(out[j]))

\* C3: dedupe_centers gives its input with each key (name, url) once, with
\* the fields and at the place of the first record of the key; the list
\* scrape_centers returns is that of the records of the pages in fetch order
C3_ResultIsFirstSeenDedupe ==
    /\ pc = "done" => /\ centers = Flatten(contrib)
                      /\ IsFirstSeenDedupe(result, Flatten(contrib))
    /\ (pc = "dedupe" /\ ret.done) => IsFirstSeenDedupe(ret.val, arg)

\* two pages gave a record of the same key with other fields, and another key follows
C3_Witness ==
    /\ pc = "done"
    /\ Len(result) >= 2
    /\ \E i, j \in 1..Len(centers) :
          i < j /\ KeyOf(centers[i]) = KeyOf(centers[j]) /\ centers[i] # centers[j]
    /\ \E i, j \in 1..Len(centers) :
          i < j /\ KeyOf(centers[i]) # KeyOf(centers[j])
                /\ \E k \in (j + 1)..Len(centers) : KeyOf(centers[k]) = KeyOf(centers[i])

\* C4: at every loop boundary the queue holds no URL twice and no visited
\* URL (so the URL taken next is never skipped), and the URLs are fetched in
\* the order they were put in the queue
C4_QueueDistinctUnvisitedFifo ==
    /\ NoRepeat(queue)
    /\ \A i \in 1..Len(queue) : queue[i] \notin visited
    /\ trace \o queue = enq

\* a page linked to a queued URL and to a visited one, and the queue is not empty
C4_Witness ==
    /\ pc = "loop"
    /\ queue # <<>>
    /\ \E u \in Fetched : /\ \E v \in LinksFrom(u) : v \in Fetched /\ v # trace[1]
                          /\ \E i, j \in 1..Len(trace) :
                                i < j /\ trace[j] = u
                                /\ queue[1] \in LinksFrom(trace[i]) \cap LinksFrom(u)

HasItemList(page) ==
    \E i \in 1..Len(page.scripts) :
        /\ page.scripts[i].kind \in {"dict", "list"}
        /\ \E k \in 1..Len(page.scripts[i].payload) :
              page.scripts[i].payload[k].type = "ItemList"

StructuredAt(u) ==
    LET loc == extract_location_from_url(u)
    IN extract_from_itemlist(parse_json_ld(web[u].page.scripts), loc.state, loc.city)

HeuristicAt(u) ==
    LET loc == extract_location_from_url(u)
    IN extract_from_links(web[u].page.anchors, u, loc.state, loc.city)

\* C5: a fetched page adds the structured records when there are some, the
\* anchor records otherwise, never both; without ItemList block there are no
\* structured records
C5_StructuredElseHeuristic ==
    \A i \in 1..Len(trace) :
        FetchedOk(trace[i]) =>
            /\ StructuredAt(trace[i]) # <<>> => contrib[i] = StructuredAt(trace[i])
            /\ StructuredAt(trace[i]) = <<>> => contrib[i] = HeuristicAt(trace[i])
            /\ ~HasItemList(web[trace[i]].page) => StructuredAt(trace[i]) = <<>>

\* one page has structured records and a facility anchor, one has no
\* ItemList and a facility anchor, one has an ItemList that gives nothing
C5_Witness ==
    /\ \E u \in Fetched : FetchedOk(u) /\ StructuredAt(u) # <<>> /\ HeuristicAt(u) # <<>>
    /\ \E u \in Fetched : FetchedOk(u) /\ ~HasItemList(web[u].page) /\ HeuristicAt(u) # <<>>
    /\ \E u \in Fetched : FetchedOk(u) /\ HasItemList(web[u].page) /\ StructuredAt(u) = <<>>

\* C7: the crawl ends by returning, with the queue empty
C7_CrawlReturns == <>(pc = "done" /\ queue = <<>>)

RECURSIVE ReachFrom(_)
\* the URLs reached from the set R by the location links of fetched pages
ReachFrom(R) ==
    LET more == R \cup UNION {LinksFrom(u) : u \in R}
    IN IF more = R THEN R ELSE ReachFrom(more)

\* C10: at the return the visited set is the seed and what the location
\* links of the fetched pages reach from it, and the keys of the result are
\* the keys of the records of these pages: both are fixed by the pages alone
C10_VisitedIsReachable ==
    pc = "done" =>
        /\ visited = ReachFrom({enq[1]})
        /\ KeysOf(result) =
              UNION {KeysOf(IF StructuredAt(u) # <<>> THEN StructuredAt(u) ELSE HeuristicAt(u)) :
                        u \in {v \in ReachFrom({enq[1]}) : FetchedOk(v)}}

\* three pages were visited, one of them gave two new links at once, one
\* fetch failed
C10_Witness ==
    /\ pc = "done"
    /\ Cardinality(visited) = 3
    /\ Cardinality(LinksFrom(trace[1]) \ {trace[1]}) = 2
    /\ \E u \in Fetched : ~FetchedOk(u)

(***************************************************************************)
(* The helpers called alone                                                *)
(***************************************************************************)
\* most path segments of a URL given to classify_location_url
MaxSegs == 3

\* most anchors of a page given to extract_from_links
MaxAnchors == 2

\* most elements of the itemListElement given to extract_from_itemlist
MaxElems == 2

SeqsUpTo(S, n) == UNION {[1..k -> S] : k \in 0..n}

Idle ==
    /\ queue = <<>> /\ visited = {} /\ centers = <<>> /\ result = <<>>
    /\ trace = <<>> /\ enq = <<>> /\ web = <<>> /\ contrib = <<>>

\* most records of a list given to dedupe_centers
MaxCenters == 3

\* records of three keys: two of the same key and other addresses, one of
\* the same name and another url, one of another name and the same url
DedupeRecords ==
    {DataCenter(<<"Acme">>, Str_x, <<"1", " ", "Main">>, <<"Austin">>, <<"Texas">>, <<>>),
     DataCenter(<<"Acme">>, Str_x, <<"2", " ", "Oak">>, <<>>, <<"Tx">>, <<"78701">>),
     DataCenter(<<"Acme">>, Str_tx, <<>>, <<>>, <<>>, <<>>),
     DataCenter(<<"Beta">>, Str_x, <<>>, <<>>, <<>>, <<>>)}

InitDedupe ==
    /\ Idle
    /\ pc = "dedupe"
    /\ arg \in SeqsUpTo(DedupeRecords, MaxCenters)
    /\ ret = [done |-> FALSE]

\* dedupe_centers(centers)
CallDedupe ==
    /\ pc = "dedupe"
    /\ ~ret.done
    /\ ret' = [done |-> TRUE, val |-> dedupe_centers(arg)]
    /\ UNCHANGED <<crawlVars, arg>>

\* dedupe_centers called alone, or by scrape_centers at the end of a crawl
SpecDedupe == (Init \/ InitDedupe) /\ [][Next \/ CallDedupe]_vars

RECURSIVE SlashJoin(_)
\* "/" before every segment
SlashJoin(segs) == IF segs = <<>> THEN <<>> ELSE <<"/", Head(segs)>> \o SlashJoin(Tail(segs))

\* the URL https://host/seg/.../seg, with a doubled first slash and a
\* closing slash on demand
UrlOf(a) ==
    <<"https:", "/", "/", a.host>>
    \o (IF a.doubled THEN <<"/">> ELSE <<>>)
    \o SlashJoin(a.segs)
    \o (IF a.closed THEN <<"/">> ELSE <<>>)

ClassifyArgs ==
    [host : {"h", "o"}, base : {"h", "o"},
     segs : SeqsUpTo({"usa", "USA", "tx", "europe"}, MaxSegs),
     doubled : BOOLEAN, closed : BOOLEAN]

InitClassify ==
    /\ Idle
    /\ pc = "classify"
    /\ arg \in ClassifyArgs
    /\ ret = [done |-> FALSE]

\* classify_location_url(url, base_netloc)
CallClassify ==
    /\ pc = "classify"
    /\ ~ret.done
    /\ ret' = [done |-> TRUE, val |-> classify_location_url(UrlOf(arg), <<arg.base>>)]
    /\ UNCHANGED <<crawlVars, arg>>

SpecClassify == InitClassify /\ [][CallClassify]_vars

\* C6: unclassified when the host is not the base host, when the path has no
\* segment, when the first segment is not usa in any case, when usa is the
\* only segment; region-level with one segment after usa, locality-level
\* with two or more
C6_ClassifyByPathShape ==
    (pc = "classify" /\ ret.done) =>
        ret.val = IF \/ arg.host # arg.base
                     \/ arg.segs = <<>>
                     \/ arg.segs[1] \notin {"usa", "USA"}
                     \/ Len(arg.segs) = 1
                  THEN "None"
                  ELSE IF Len(arg.segs) - 1 = 1 THEN "state" ELSE "city"

\* a locality-level URL with an upper-case marker and a doubled slash
C6_Witness ==
    /\ pc = "classify" /\ ret.done /\ ret.val = "city"
    /\ Len(arg.segs) = 3 /\ arg.segs[1] = "USA" /\ arg.doubled

LinkAnchors ==
    [href : {Str_x,
             <<"/", "data-centers", "/", "x">>,
             <<"dir", "/", "Data-Centres", "/", "x">>,
             <<"/", "usa", "/", "tx", "/">>},
     text : {<<>>, <<"Acme", " ", " ", "DC">>},
     address : {<<"1", " ", "Main">>}]

InitLinks ==
    /\ Idle
    /\ pc = "links"
    /\ arg \in [base_url : {Str_tx, RstripSlash(Str_tx)},
                anchors : SeqsUpTo(LinkAnchors, MaxAnchors)]
    /\ ret = [done |-> FALSE]

\* extract_from_links(soup, base_url) with the defaults of the page
CallLinks ==
    /\ pc = "links"
    /\ ~ret.done
    /\ LET loc == extract_location_from_url(arg.base_url)
       IN ret' = [done |-> TRUE,
                  val |-> extract_from_links(arg.anchors, arg.base_url, loc.state, loc.city)]
    /\ UNCHANGED <<crawlVars, arg>>

SpecLinks == InitLinks /\ [][CallLinks]_vars

IsAbsolute(url) == urlparse(url).scheme \in {"http", "https"} /\ urlparse(url).netloc # <<>>

\* C8: every facility anchor with a text gives a record whose url is the
\* href resolved against the page URL, and the url of every record is absolute
C8_RecordUrlResolved ==
    (pc = "links" /\ ret.done) =>
        /\ \A i \in 1..Len(arg.anchors) :
              (DATA_CENTER_PATH_RE(arg.anchors[i].href)
                  /\ normalize_whitespace(arg.anchors[i].text) # <<>>)
              => \E k \in 1..Len(ret.val) :
                    ret.val[k].url = urljoin(arg.base_url, arg.anchors[i].href)
        /\ \A k \in 1..Len(ret.val) : IsAbsolute(ret.val[k].url)

\* a dict with the keys of the set keys
Dict(keys, vals) == [k \in keys |-> vals[k]]

AddressDicts ==
    { [streetAddress |-> <<" ", "1", " ", " ", "Main">>, addressLocality |-> <<"Austin">>,
       addressRegion |-> <<"Texas">>, postalCode |-> <<"78701">>],
      [streetAddress |-> <<"1", " ", "Main">>, addressLocality |-> <<" ">>,
       addressRegion |-> <<>>, postalCode |-> <<>>],
      [addressCountry |-> <<"US">>] }

\* the entries: name absent, empty or given; url absent or given; address
\* absent or one of the dicts
Entries ==
    {Dict(keys, [name |-> n, url |-> Str_x, address |-> a]) :
        keys \in SUBSET {"name", "url", "address"},
        n \in {<<>>, <<"Acme", " ", " ", "DC">>},
        a \in AddressDicts}

Elements == {[item |-> e] : e \in Entries} \cup {[position |-> <<"2">>]}

InitItemlist ==
    /\ Idle
    /\ pc = "itemlist"
    /\ arg \in [type : {"ItemList", "Organization"},
                elements : SeqsUpTo(Elements, MaxElems),
                default_state : {<<"Tx">>},
                default_city : {<<>>, <<"Dallas">>}]
    /\ ret = [done |-> FALSE]

\* extract_from_itemlist(items, default_state, default_city)
CallItemlist ==
    /\ pc = "itemlist"
    /\ ~ret.done
    /\ ret' = [done |-> TRUE,
               val |-> extract_from_itemlist(
                          <<[type |-> arg.type, itemListElement |-> arg.elements]>>,
                          arg.default_state, arg.default_city)]
    /\ UNCHANGED <<crawlVars, arg>>

SpecItemlist == InitItemlist /\ [][CallItemlist]_vars

Field(entry, key) ==
    IF "address" \in DOMAIN entry /\ key \in DOMAIN entry.address
    THEN normalize_whitespace(entry.address[key]) ELSE <<>>

HasNameAndUrl(element) ==
    /\ "item" \in DOMAIN element
    /\ "name" \in DOMAIN element.item /\ element.item.name # <<>>
    /\ "url" \in DOMAIN element.item /\ element.item.url # <<>>

\* the record of an element: city and state are the defaults only when the
\* entry has no address dict
RecordDefaultsWithoutAddress(element, default_state, default_city) ==
    LET entry == element.item
    IN DataCenter(normalize_whitespace(entry.name), entry.url,
                  Field(entry, "streetAddress"),
                  IF "address" \in DOMAIN entry THEN Field(entry, "addressLocality") ELSE default_city,
                  IF "address" \in DOMAIN entry THEN Field(entry, "addressRegion") ELSE default_state,
                  Field(entry, "postalCode"))

\* the record of an element: city and state are the defaults whenever the
\* sub-field gives nothing
RecordDefaultsPerField(element, default_state, default_city) ==
    LET entry == element.item
    IN DataCenter(normalize_whitespace(entry.name), entry.url,
                  Field(entry, "streetAddress"),
                  IF Field(entry, "addressLocality") # <<>>
                  THEN Field(entry, "addressLocality") ELSE default_city,
                  IF Field(entry, "addressRegion") # <<>>
                  THEN Field(entry, "addressRegion") ELSE default_state,
                  Field(entry, "postalCode"))

\* C9 as stated: the records are those of the elements with name and url, in
\* order, and the defaults are used only without address dict
C9_DefaultsOnlyWithoutAddress ==
    (pc = "itemlist" /\ ret.done /\ arg.type = "ItemList") =>
        ret.val = Flatten([i \in 1..Len(arg.elements) |->
                     IF HasNameAndUrl(arg.elements[i])
                     THEN <<RecordDefaultsWithoutAddress(arg.elements[i],
                                arg.default_state, arg.default_city)>>
                     ELSE <<>>])

\* C9 amended: the records are those of the elements with name and url, in
\* order; address and postal_code are the normalized sub-fields; city and
\* state are the normalized sub-field when it is not empty, the default
\* otherwise, with or without address dict
C9_DefaultsPerField ==
    (pc = "itemlist" /\ ret.done /\ arg.type = "ItemList") =>
        ret.val = Flatten([i \in 1..Len(arg.elements) |->
                     IF HasNameAndUrl(arg.elements[i])
                     THEN <<RecordDefaultsPerField(arg.elements[i],
                                arg.default_state, arg.default_city)>>
                     ELSE <<>>])

\* an entry with an address dict whose locality is blank took the default
\* city, next to an element that gave no record
C9_Witness ==
    /\ pc = "itemlist" /\ ret.done /\ arg.type = "ItemList"
    /\ Len(arg.elements) = 2 /\ Len(ret.val) = 1
    /\ arg.default_city # <<>>
    /\ \E i \in 1..2 :
          /\ HasNameAndUrl(arg.elements[i])
          /\ "address" \in DOMAIN arg.elements[i].item
          /\ ret.val[1].city = arg.default_city
          /\ ret.val[1].address # <<>>

====
